---- MODULE Spec2Model ----
(***************************************************************************)
(* Model of the leafpress Obsidian plugin's binary lifecycle and           *)
(* subprocess orchestration: BinaryManager (src/src/cli/manager.ts),       *)
(* CommandHandlers (src/src/cli/types.ts), LeafpressPanel                  *)
(* (src/src/panel.ts), the settings tab (src/src/main.ts) and the          *)
(* configuration file (src/src/utils/config.ts).                           *)
(*                                                                         *)
(* The module holds these specifications over disjoint groups of           *)
(* variables:                                                              *)
(*   SpecRun    - one child process started by execCommand or              *)
(*                startServerProcess: its events, timers and promise.      *)
(*   SpecServer - concurrent start requests for the preview server.        *)
(*   SpecBinary - ensureBinary / downloadBinary / updateBinary and the     *)
(*                files under <vault>/.obsidian/plugins/leafpress/bin.     *)
(*   SpecFn     - calls of verifyChecksum, getDeploymentStatus,            *)
(*                compareVersions, checkForUpdates, matchAssetName and     *)
(*                getPlatformInfo.                                         *)
(*   SpecPanel  - the status panel's intervals, click handlers, onClose.   *)
(*   SpecVault  - the vault files the plugin and the leafpress binary      *)
(*                write, and the initialize wizard.                        *)
(*   SpecWait   - one waitForServerReady call; SpecWaitLive adds the       *)
(*                fairness of its interval and of its probes.              *)
(*   SpecConfig - leafpress.json under the settings tab's handlers and     *)
(*                the update functions of utils/config.ts.                 *)
(*   SpecPlug   - the custom binary path setting and the BinaryManager.    *)
(***************************************************************************)
EXTENDS Integers, Sequences, FiniteSets, TLC

\* ------------------------------------------------------------------------
\* Bounds
\* ------------------------------------------------------------------------
MaxChunks == 1
MaxExitCode == 1
MaxRequests == 2
MaxProcs == 2
MaxVersion == 2
MaxLines == 2
MaxFiles == 51
MaxTicks == 2
MaxPre == 2
MaxName == 4
MaxElapsed == 3
MaxProbes == 2
MaxNav == 1
MaxDeploys == 2
MaxModals == 2

\* The period of the poll interval of waitForServerReady, in milliseconds.
PollMs == 200

\* ------------------------------------------------------------------------
\* Child-process variables (execCommand / startServerProcess)
\* ------------------------------------------------------------------------
VARIABLES
  caller,        \* which handler started the current child
  args,          \* argument list handed to spawn (one command word)
  runState,      \* "idle" | "rejected" | "spawned"
  child,         \* the ChildProcess object and the events it has emitted
  stdout,        \* execCommand's local stdout accumulator
  stderr,        \* execCommand's local stderr accumulator
  timeout,       \* the 5-minute timer of execCommand
  graceTimer,    \* the 3-second timer armed after SIGTERM
  promise,       \* the promise execCommand returned
  serverPromise, \* the promise startServerProcess returned
  startTimer,    \* the 500 ms timer of startServerProcess
  firstEvent,    \* history: first of close / error / timeout to occur
  killedBy       \* history: which plugin code paths delivered a signal

runVars == <<caller, args, runState, child, stdout, stderr, timeout,
             graceTimer, promise, serverPromise, startTimer, firstEvent,
             killedBy>>

\* ------------------------------------------------------------------------
\* Preview-server start requests (panel button, preview command)
\* ------------------------------------------------------------------------
VARIABLES
  reqs,          \* in-flight handlers: panel click or preview command
  procs,         \* serve subprocesses spawned so far
  serverBtn      \* the Start/Stop Server button of the last render

serverVars == <<reqs, procs, serverBtn>>

\* ------------------------------------------------------------------------
\* Binary manager and the files it owns
\* ------------------------------------------------------------------------
VARIABLES
  platform,          \* process.platform
  customBinaryPath,  \* BinaryManager.customBinaryPath ("" = managed mode)
  fs,                \* binary, binary.backup, downloaded archive, custom file
  latest,            \* version of the latest release on the release index
  op,                \* the ensureBinary / updateBinary call in progress
  last,              \* how the last finished call ended
  download           \* the checksum verification of the current or last
                     \* call: the manifest's hash for the archive, the
                     \* archive's hash, the verdict

binVars == <<platform, customBinaryPath, fs, latest, op, last, download>>

\* ---- getPlatformInfo (manager.ts 50-77) ----
\* The asset pattern is kept as the pieces of its template literal:
\* <<"leafpress-v*-", os, "-", archName, extension>>.

getPlatformInfo(plat, arch) ==
  IF plat = "darwin"
    THEN [threw |-> "none", platform |-> plat, arch |-> arch,
          assetName |-> <<"leafpress-v*-", "darwin", "-",
                          IF arch = "arm64" THEN "arm64" ELSE "amd64", ".tar.gz">>,
          executable |-> "leafpress"]
  ELSE IF plat = "linux"
    THEN [threw |-> "none", platform |-> plat, arch |-> arch,
          assetName |-> <<"leafpress-v*-", "linux", "-",
                          IF arch = "arm64" THEN "arm64" ELSE "amd64", ".tar.gz">>,
          executable |-> "leafpress"]
  ELSE IF plat = "win32"
    THEN [threw |-> "none", platform |-> plat, arch |-> arch,
          assetName |-> <<"leafpress-v*-", "windows", "-", "amd64", ".zip">>,
          executable |-> "leafpress.exe"]
  ELSE [threw |-> "Unsupported platform", platform |-> plat, arch |-> arch,
        assetName |-> <<>>, executable |-> ""]

\* ------------------------------------------------------------------------
\* Calls of the pure functions
\* ------------------------------------------------------------------------
VARIABLES
  call               \* the last call: function, arguments, result

fnVars == <<call>>

\* ------------------------------------------------------------------------
\* The status panel's timers, and the files of the vault
\* ------------------------------------------------------------------------
VARIABLES
  panel,             \* LeafpressPanel: its fields, its live timers, the
                     \* button handler in progress
  vault              \* per vault path: does it exist, and who wrote it

viewVars == <<panel, vault>>

\* ------------------------------------------------------------------------
\* One waitForServerReady call and the port it polls
\* ------------------------------------------------------------------------
VARIABLES
  wait               \* the promise, its interval, the isServerRunning probes
                     \* in flight, the time since startTime, port 3000

waitVars == <<wait>>

\* ------------------------------------------------------------------------
\* The settings tab: plugin settings and the site configuration file
\* ------------------------------------------------------------------------
VARIABLES
  cfg,               \* leafpress.json, LeafpressSettingTab.currentConfig and
                     \* the update calls of utils/config.ts in progress
  plug               \* plugin.settings.customBinaryPath, and the last
                     \* binary path the BinaryManager resolved

tabVars == <<cfg, plug>>

vars == <<runVars, serverVars, binVars, fnVars, viewVars, waitVars, tabVars>>

\* What the actions of each group leave alone.
notRunVars == <<serverVars, binVars, fnVars, viewVars, waitVars, tabVars>>
notServerVars == <<runVars, binVars, fnVars, viewVars, waitVars, tabVars>>
notBinVars == <<runVars, serverVars, fnVars, viewVars, waitVars, tabVars>>
notFnVars == <<runVars, serverVars, binVars, viewVars, waitVars, tabVars>>
notPanelVars == <<runVars, serverVars, binVars, fnVars, vault, waitVars, tabVars>>
notVaultVars == <<runVars, serverVars, binVars, fnVars, panel, waitVars, tabVars>>
notWaitVars == <<runVars, serverVars, binVars, fnVars, viewVars, tabVars>>
notCfgVars == <<runVars, serverVars, binVars, fnVars, viewVars, waitVars, plug>>
notPlugVars == <<runVars, serverVars, binVars, fnVars, viewVars, waitVars, cfg>>

\* JS null exit code: the process was terminated by a signal.
NullCode == -999
\* Exit status the close event carries when the spawn itself failed (-errno).
SpawnErrno == -2

ExitCodes == 0..MaxExitCode

Pending == [state |-> "pending"]

NoChild ==
  [spawnFailed |-> FALSE, handle |-> FALSE, killed |-> FALSE,
   exitCode |-> NullCode, exited |-> FALSE, closed |-> FALSE,
   errored |-> FALSE, sent |-> {}]

\* A promise settles once: later resolve() calls are ignored.
resolveOverwrites(p, value) == [state |-> "resolved", value |-> value]

resolve(p, value) ==
  IF p.state = "pending" THEN [state |-> "resolved", value |-> value] ELSE p

\* ChildProcess.kill(signal) as used by the plugin: the signal is delivered
\* only while the handle is live, and `killed` records a delivered signal.
kill(c, sig) ==
  IF c.handle
    THEN [c EXCEPT !.killed = TRUE, !.sent = @ \cup {sig}]
    ELSE c

\* `code || 1`
orOne(code) == IF code = 0 \/ code = NullCode THEN 1 ELSE code

closeResult(code) ==
  [success |-> (code = 0), stdout |-> stdout, stderr |-> stderr,
   code |-> orOne(code)]

errorResultCaptured ==
  [success |-> FALSE, stdout |-> stdout, stderr |-> stderr, code |-> 1]

errorResult ==
  [success |-> FALSE, stdout |-> stdout, stderr |-> <<"err.message">>,
   code |-> 1]

timeoutResult ==
  [success |-> FALSE, stdout |-> stdout, stderr |-> <<"Command timed out">>,
   code |-> -1]

RunInit ==
  /\ caller = "none"
  /\ args = "none"
  /\ runState = "idle"
  /\ child = NoChild
  /\ stdout = <<>>
  /\ stderr = <<>>
  /\ timeout = "none"
  /\ graceTimer = "none"
  /\ promise = Pending
  /\ serverPromise = Pending
  /\ startTimer = "none"
  /\ firstEvent = "none"
  /\ killedBy = {}

\* ------------------------------------------------------------------------
\* execCommand(args): ensureBinary, then spawn with the handlers and the
\* 5-minute timer (manager.ts 466-524).  ensureOk is the outcome of the
\* awaited ensureBinary(); spawnOk is whether the OS could start the binary.
\* ------------------------------------------------------------------------
execCommand(who, a, ensureOk, spawnOk) ==
  /\ runState = "idle"
  /\ caller' = who
  /\ args' = a
  /\ IF ~ensureOk
       THEN /\ runState' = "rejected"
            /\ UNCHANGED <<child, timeout>>
       ELSE /\ runState' = "spawned"
            /\ child' = [NoChild EXCEPT !.spawnFailed = ~spawnOk,
                                        !.handle = spawnOk]
            /\ timeout' = "armed"
  /\ UNCHANGED notRunVars
  /\ UNCHANGED <<stdout, stderr, graceTimer, promise, serverPromise,
                 startTimer, firstEvent, killedBy>>

\* LeafpressPanel.startServer: execCommand(["serve"]), not awaited.
StartServer ==
  \E ensureOk \in BOOLEAN, spawnOk \in BOOLEAN :
    execCommand("panel.startServer", "serve", ensureOk, spawnOk)

\* CommandHandlers.preview: execCommand(["serve"]), not awaited.
Preview ==
  \E ensureOk \in BOOLEAN, spawnOk \in BOOLEAN :
    execCommand("preview", "serve", ensureOk, spawnOk)

\* CommandHandlers.build: execCommand(["build"]).
Build ==
  \E ensureOk \in BOOLEAN, spawnOk \in BOOLEAN :
    execCommand("build", "build", ensureOk, spawnOk)

\* CommandHandlers.deploy: execCommand(["deploy", "--skip-build"]).
Deploy ==
  \E ensureOk \in BOOLEAN, spawnOk \in BOOLEAN :
    execCommand("deploy", "deploy", ensureOk, spawnOk)

ExecMode == runState = "spawned" /\ caller # "startServerProcess"

\* child.stdout.on("data")
StdoutData ==
  /\ ExecMode
  /\ ~child.spawnFailed /\ ~child.closed
  /\ Len(stdout) < MaxChunks
  /\ stdout' = Append(stdout, "out")
  /\ UNCHANGED notRunVars
  /\ UNCHANGED <<caller, args, runState, child, stderr, timeout, graceTimer,
                 promise, serverPromise, startTimer, firstEvent, killedBy>>

\* child.stderr.on("data")
StderrData ==
  /\ ExecMode
  /\ ~child.spawnFailed /\ ~child.closed
  /\ Len(stderr) < MaxChunks
  /\ stderr' = Append(stderr, "err")
  /\ UNCHANGED notRunVars
  /\ UNCHANGED <<caller, args, runState, child, stdout, timeout, graceTimer,
                 promise, serverPromise, startTimer, firstEvent, killedBy>>

noteFirst(ev) == IF firstEvent = "none" THEN ev ELSE firstEvent

\* child.on("error"): the spawn failed; Node emits it on the next tick.
onErrorExec ==
  /\ promise' = resolve(promise, errorResult)
  /\ firstEvent' = noteFirst("error")
  /\ UNCHANGED notRunVars
  /\ UNCHANGED <<serverPromise>>

\* startServerProcess's child.on("error")
onErrorServer ==
  /\ serverPromise' = resolve(serverPromise,
                              [process |-> "child", error |-> <<"err.message">>])
  /\ UNCHANGED notRunVars
  /\ UNCHANGED <<promise, firstEvent>>

ChildError ==
  /\ runState = "spawned"
  /\ child.spawnFailed /\ ~child.errored
  /\ child' = [child EXCEPT !.errored = TRUE]
  /\ IF caller = "startServerProcess" THEN onErrorServer ELSE onErrorExec
  /\ UNCHANGED notRunVars
  /\ UNCHANGED <<caller, args, runState, stdout, stderr, timeout, graceTimer,
                 startTimer, killedBy>>

\* The exit codes a terminating process can report: any status of its own,
\* or null when a delivered signal ended it.
exitCodesOf(c) ==
  IF "SIGKILL" \in c.sent THEN {NullCode}
  ELSE IF c.sent # {} THEN ExitCodes \cup {NullCode}
  ELSE ExitCodes

onExitKeepsTimer == timeout

\* child.on("exit", () => clearTimeout(timeout))
onExit == IF timeout = "armed" THEN "cleared" ELSE timeout

\* The process terminates and Node emits "exit".
ChildExit ==
  /\ runState = "spawned"
  /\ child.handle
  /\ \E code \in exitCodesOf(child) :
       child' = [child EXCEPT !.handle = FALSE, !.exited = TRUE,
                              !.exitCode = code]
  /\ timeout' = IF caller = "startServerProcess" THEN timeout ELSE onExit
  /\ UNCHANGED notRunVars
  /\ UNCHANGED <<caller, args, runState, stdout, stderr, graceTimer, promise,
                 serverPromise, startTimer, firstEvent, killedBy>>

\* child.on("close", (code) => resolve({...}))
onClose(code) ==
  /\ promise' = resolve(promise, closeResult(code))
  /\ firstEvent' = noteFirst("close")

\* Node emits "close" after "exit", or after the "error" of a failed spawn.
ChildClose ==
  /\ runState = "spawned"
  /\ ~child.closed
  /\ child.exited \/ child.errored
  /\ child' = [child EXCEPT !.closed = TRUE]
  /\ IF caller = "startServerProcess"
       THEN UNCHANGED <<promise, firstEvent>>
       ELSE onClose(IF child.exited THEN child.exitCode ELSE SpawnErrno)
  /\ UNCHANGED notRunVars
  /\ UNCHANGED <<caller, args, runState, stdout, stderr, timeout, graceTimer,
                 serverPromise, startTimer, killedBy>>

noteKill(c, c2, why) == IF c2.sent # c.sent THEN killedBy \cup {why} ELSE killedBy

\* The 5-minute timer fires: SIGTERM, arm the 3-second timer, resolve.
\* A failed spawn has reported its error on the next tick, long before.
TimeoutFires ==
  /\ ExecMode
  /\ timeout = "armed"
  /\ child.spawnFailed => child.errored
  /\ timeout' = "fired"
  /\ child' = kill(child, "SIGTERM")
  /\ killedBy' = noteKill(child, child', "timeout")
  /\ graceTimer' = "armed"
  /\ promise' = resolve(promise, timeoutResult)
  /\ firstEvent' = noteFirst("timeout")
  /\ UNCHANGED notRunVars
  /\ UNCHANGED <<caller, args, runState, stdout, stderr, serverPromise,
                 startTimer>>

\* setTimeout(() => { if (!child.killed) child.kill("SIGKILL") }, 3000)
forceKill(c) == IF ~c.killed THEN kill(c, "SIGKILL") ELSE c

GraceFires ==
  /\ runState = "spawned"
  /\ graceTimer = "armed"
  /\ graceTimer' = "fired"
  /\ child' = forceKill(child)
  /\ killedBy' = noteKill(child, child', "grace")
  /\ UNCHANGED notRunVars
  /\ UNCHANGED <<caller, args, runState, stdout, stderr, timeout, promise,
                 serverPromise, startTimer, firstEvent>>

\* ------------------------------------------------------------------------
\* startServerProcess / stopServerProcess (manager.ts 530-578)
\* ------------------------------------------------------------------------
startServerProcess ==
  /\ runState = "idle"
  /\ caller' = "startServerProcess"
  /\ args' = "serve"
  /\ \E ensureOk \in BOOLEAN, spawnOk \in BOOLEAN :
       IF ~ensureOk
         THEN /\ runState' = "rejected"
              /\ serverPromise' = resolve(serverPromise,
                    [process |-> "null", error |-> <<"Failed to ensure binary">>])
              /\ UNCHANGED <<child, startTimer>>
         ELSE /\ runState' = "spawned"
              /\ child' = [NoChild EXCEPT !.spawnFailed = ~spawnOk,
                                          !.handle = spawnOk]
              /\ startTimer' = "armed"
              /\ UNCHANGED serverPromise
  /\ UNCHANGED notRunVars
  /\ UNCHANGED <<stdout, stderr, timeout, graceTimer, promise, firstEvent,
                 killedBy>>

\* setTimeout(() => { if (!resolved) resolve({ process: child }) }, 500)
StartTimerFires ==
  /\ startTimer = "armed"
  /\ child.spawnFailed => child.errored
  /\ startTimer' = "fired"
  /\ serverPromise' = resolve(serverPromise,
                              [process |-> "child", error |-> <<>>])
  /\ UNCHANGED notRunVars
  /\ UNCHANGED <<caller, args, runState, child, stdout, stderr, timeout,
                 graceTimer, promise, firstEvent, killedBy>>

\* stopServerProcess(child), given the child startServerProcess returned.
stopServerProcess ==
  /\ runState = "spawned" /\ caller = "startServerProcess"
  /\ serverPromise.state = "resolved"
  /\ ~child.killed
  /\ graceTimer # "armed"
  /\ child' = kill(child, "SIGTERM")
  /\ killedBy' = noteKill(child, child', "stop")
  /\ graceTimer' = "armed"
  /\ UNCHANGED notRunVars
  /\ UNCHANGED <<caller, args, runState, stdout, stderr, timeout, promise,
                 serverPromise, startTimer, firstEvent>>

NextRun ==
  \/ StartServer
  \/ Preview
  \/ Build
  \/ Deploy
  \/ StdoutData
  \/ StderrData
  \/ ChildError
  \/ ChildExit
  \/ ChildClose
  \/ TimeoutFires
  \/ GraceFires
  \/ startServerProcess
  \/ StartTimerFires
  \/ stopServerProcess

\* ------------------------------------------------------------------------
\* Start requests for the preview server: LeafpressPanel's server button
\* (panel.ts 136-157, 306-335) and CommandHandlers.preview (types.ts 451-477)
\* ------------------------------------------------------------------------
Requests == 1..MaxRequests
Procs == 1..MaxProcs

IdleReq == [kind |-> "none", pc |-> "idle", spawned |-> FALSE]

\* isServerRunning / isPortInUse(3000): some process listens on the port.
isServerRunning == \E p \in Procs : procs[p] = "listening"

\* onOpen's render of the server button.
render ==
  [label |-> IF isServerRunning THEN "Stop Server" ELSE "Start Server",
   disabled |-> FALSE]

ServerInit ==
  /\ reqs = [r \in Requests |-> IdleReq]
  /\ procs = [p \in Procs |-> "unspawned"]
  /\ serverBtn = [label |-> "Start Server", disabled |-> FALSE]

\* The serve button's click handler up to its first await.
PanelClick(r) ==
  /\ reqs[r].pc = "idle"
  /\ ~serverBtn.disabled
  /\ serverBtn' = [serverBtn EXCEPT !.disabled = TRUE]
  /\ reqs' = [reqs EXCEPT ![r] =
       [kind |-> "panel",
        pc |-> IF serverBtn.label = "Stop Server" THEN "stopServer" ELSE "startServer",
        spawned |-> FALSE]]
  /\ UNCHANGED notServerVars
  /\ UNCHANGED procs

\* killPortProcess(3000): lsof -ti:3000 | xargs kill -9
killPortProcess == [p \in Procs |-> IF procs[p] = "listening" THEN "dead" ELSE procs[p]]

\* startServer: await killPortProcess(3000), then on to ensureBinary.
StartServerKill(r) ==
  /\ reqs[r].pc = "startServer"
  /\ procs' = killPortProcess
  /\ reqs' = [reqs EXCEPT ![r].pc = "ensureBinary"]
  /\ UNCHANGED notServerVars
  /\ UNCHANGED serverBtn

\* stopServer: await killPortProcess(3000).
StopServer(r) ==
  /\ reqs[r].pc = "stopServer"
  /\ procs' = killPortProcess
  /\ reqs' = [reqs EXCEPT ![r].pc = "finishing"]
  /\ UNCHANGED notServerVars
  /\ UNCHANGED serverBtn

\* preview(): await isPortInUse(3000); open the browser when it is in use.
PreviewCommand(r) ==
  /\ reqs[r].pc = "idle"
  /\ reqs' = [reqs EXCEPT ![r] =
       [kind |-> "preview",
        pc |-> IF isServerRunning THEN "finishing" ELSE "ensureBinary",
        spawned |-> FALSE]]
  /\ UNCHANGED notServerVars
  /\ UNCHANGED <<procs, serverBtn>>

\* await this.binaryManager.ensureBinary() in startServer / preview.
AwaitEnsureBinary(r) ==
  /\ reqs[r].pc = "ensureBinary"
  /\ \E ok \in BOOLEAN :
       reqs' = [reqs EXCEPT ![r].pc = IF ok THEN "execCommand" ELSE "finishing"]
  /\ UNCHANGED notServerVars
  /\ UNCHANGED <<procs, serverBtn>>

\* The next process slot, for the child that spawn() creates.
newProc == CHOOSE p \in Procs : procs[p] = "unspawned" /\ \A q \in Procs : q < p => procs[q] # "unspawned"

\* this.binaryManager.execCommand(["serve"]): ensureBinary, then spawn.
ExecServe(r) ==
  /\ reqs[r].pc = "execCommand"
  /\ \E p \in Procs : procs[p] = "unspawned"
  /\ \E ok \in BOOLEAN :
       IF ok
         THEN /\ procs' = [procs EXCEPT ![newProc] = "starting"]
              /\ reqs' = [reqs EXCEPT ![r].pc = "finishing", ![r].spawned = TRUE]
         ELSE /\ reqs' = [reqs EXCEPT ![r].pc = "finishing"]
              /\ UNCHANGED procs
  /\ UNCHANGED notServerVars
  /\ UNCHANGED serverBtn

\* The handler completes: the panel's finally-block re-renders (onOpen);
\* preview's 2-second timer opens the browser.
Finish(r) ==
  /\ reqs[r].pc = "finishing"
  /\ serverBtn' = IF reqs[r].kind = "panel" THEN render ELSE serverBtn
  /\ reqs' = [reqs EXCEPT ![r] = IdleReq]
  /\ UNCHANGED notServerVars
  /\ UNCHANGED procs

\* The panel's 2-second refresh interval calls onOpen, which re-renders.
Refresh ==
  /\ serverBtn' = render
  /\ UNCHANGED notServerVars
  /\ UNCHANGED <<reqs, procs>>

\* A started serve process binds port 3000 when it is free.
ProcListen(p) ==
  /\ procs[p] = "starting"
  /\ ~isServerRunning
  /\ procs' = [procs EXCEPT ![p] = "listening"]
  /\ UNCHANGED notServerVars
  /\ UNCHANGED <<reqs, serverBtn>>

\* A serve process exits: the port is taken, or it ends on its own.
ProcExit(p) ==
  /\ procs[p] \in {"starting", "listening"}
  /\ procs' = [procs EXCEPT ![p] = "dead"]
  /\ UNCHANGED notServerVars
  /\ UNCHANGED <<reqs, serverBtn>>

NextServer ==
  \/ \E r \in Requests : PanelClick(r)
  \/ \E r \in Requests : StartServerKill(r)
  \/ \E r \in Requests : StopServer(r)
  \/ \E r \in Requests : PreviewCommand(r)
  \/ \E r \in Requests : AwaitEnsureBinary(r)
  \/ \E r \in Requests : ExecServe(r)
  \/ \E r \in Requests : Finish(r)
  \/ Refresh
  \/ \E p \in Procs : ProcListen(p)
  \/ \E p \in Procs : ProcExit(p)

\* ------------------------------------------------------------------------
\* Strings.  Where the code looks inside a string (regular expressions,
\* split, trim, toLowerCase, includes) the string is a sequence of
\* one-character strings.
\* ------------------------------------------------------------------------
\* String.prototype.toLowerCase, letter by letter.
lowerChar(c) ==
  CASE c = "A" -> "a" [] c = "B" -> "b" [] c = "C" -> "c" [] c = "D" -> "d"
    [] c = "E" -> "e" [] c = "H" -> "h" [] c = "K" -> "k" [] c = "M" -> "m"
    [] c = "S" -> "s" [] c = "U" -> "u" [] OTHER -> c

toLowerCase(s) == [i \in 1..Len(s) |-> lowerChar(s[i])]

\* String.prototype.includes
includes(s, sub) ==
  \E i \in 0..(Len(s) - Len(sub)) : SubSeq(s, i + 1, i + Len(sub)) = sub

\* The characters \s matches, of those that occur in the model.
isSpace(c) == c \in {" ", "\t"}

\* text.split("\n")
RECURSIVE splitOn(_, _, _)
splitOn(s, sep, cur) ==
  IF s = <<>> THEN <<cur>>
  ELSE IF Head(s) = sep THEN <<cur>> \o splitOn(Tail(s), sep, <<>>)
  ELSE splitOn(Tail(s), sep, Append(cur, Head(s)))

RECURSIVE trimStart(_)
trimStart(s) ==
  IF s # <<>> /\ isSpace(Head(s)) THEN trimStart(Tail(s)) ELSE s

RECURSIVE trimEnd(_)
trimEnd(s) ==
  IF s # <<>> /\ isSpace(s[Len(s)]) THEN trimEnd(SubSeq(s, 1, Len(s) - 1)) ELSE s

\* String.prototype.trim
trim(s) == trimEnd(trimStart(s))

\* s.split(/\s+/): a run of whitespace is one separator.
RECURSIVE splitWs(_, _)
splitWs(s, cur) ==
  IF s = <<>> THEN <<cur>>
  ELSE IF isSpace(Head(s)) THEN <<cur>> \o splitWs(trimStart(s), <<>>)
  ELSE splitWs(Tail(s), Append(cur, Head(s)))

\* ------------------------------------------------------------------------
\* verifyChecksum (manager.ts 248-316)
\* ------------------------------------------------------------------------
ChecksumsTxt == <<"c","h","e","c","k","s","u","m","s",".","t","x","t">>
Sha256Sums == <<"S","H","A","2","5","6","S","U","M","S">>
ChecksumWord == <<"c","h","e","c","k","s","u","m">>

\* crypto.createHash("sha256").update(data).digest("hex"): lower-case hex,
\* different for different bytes.  Digests are two hex digits long here.
sha256(data) == IF data = "B" THEN <<"a", "b">> ELSE <<"c", "d">>

\* assets.find(...): index of the first asset whose name is checksums.txt,
\* SHA256SUMS or contains "checksum" in any case; 0 when there is none.
isChecksumName(name) ==
  \/ name = ChecksumsTxt
  \/ name = Sha256Sums
  \/ includes(toLowerCase(name), ChecksumWord)

checksumAsset(assets) ==
  LET hits == {i \in 1..Len(assets) : isChecksumName(assets[i])}
  IN  IF hits = {} THEN 0 ELSE CHOOSE i \in hits : \A j \in hits : i <= j

\* The loop over the manifest's lines: the hash of the first line whose
\* second field is the asset name, lower-cased; <<>> when there is none.
RECURSIVE expectedHashIn(_, _)
expectedHashIn(lines, assetName) ==
  IF lines = <<>> THEN <<>>
  ELSE LET parts == splitWs(trim(Head(lines)), <<>>)
       IN  IF Len(parts) >= 2 /\ parts[2] = assetName
             THEN toLowerCase(parts[1])
             ELSE expectedHashIn(Tail(lines), assetName)

\* `return actualHash !== expectedHash ? false : true`, with the comparison
\* replaced by equality in the mutant below.
verdictIgnoresHash(expectedHash, actualHash) == "true"

verdict(expectedHash, actualHash) ==
  IF actualHash # expectedHash THEN "false" ELSE "true"

\* Inputs of verifyChecksum.  ArchiveName is the asset that was downloaded.
ArchiveName == <<"a", ".", "g", "z">>
OtherName == <<"b", ".", "g", "z">>
UpperChecksumName == <<"C","H","E","C","K","S","U","M">>
NotesName == <<"n", ".", "m", "d">>

AssetLists ==
  { <<ArchiveName>>, <<ArchiveName, NotesName>>, <<ArchiveName, ChecksumsTxt>>,
    <<Sha256Sums, ArchiveName>>, <<ArchiveName, UpperChecksumName>>,
    <<Sha256Sums, ChecksumsTxt, ArchiveName>>,
    <<ArchiveName, UpperChecksumName, Sha256Sums>> }

Datas == {"B", "X"}

\* A manifest entry: a hash in upper or lower case, a file name, and whether
\* the line is written "<hash> <name>" or " <hash><tab><name>  ".  The empty
\* line is the entry without a hash.
ManifestEntries ==
  [hash : { <<"A", "B">>, <<"c", "d">> }, name : {ArchiveName, OtherName},
   padded : BOOLEAN]
  \cup { [hash |-> <<>>, name |-> <<>>, padded |-> FALSE] }

Manifests(n) == UNION { [1..k -> ManifestEntries] : k \in 0..n }

\* The text of a manifest file, one line per entry.
RECURSIVE manifestText(_)
manifestText(es) ==
  IF es = <<>> THEN <<>>
  ELSE LET e == Head(es)
           line == IF e.hash = <<>> THEN <<>>
                   ELSE IF e.padded
                     THEN <<" ">> \o e.hash \o <<"\t">> \o e.name \o <<" ", " ">>
                   ELSE e.hash \o <<" ">> \o e.name
       IN  IF Len(es) = 1 THEN line
           ELSE line \o <<"\n">> \o manifestText(Tail(es))

\* What requestUrl gives for the manifest whose content is text.
Fetches == {"ok", "status", "threw"}
responseOf(fetch, text) ==
  [threw |-> fetch = "threw",
   status |-> IF fetch = "status" THEN 404 ELSE 200,
   text |-> IF fetch = "ok" THEN text ELSE <<>>]

\* response is what requestUrl(checksumAsset.browser_download_url) gives:
\* it throws, or has a status and a text.
verifyChecksum(assets, assetName, data, response) ==
  IF checksumAsset(assets) = 0 THEN "null"
  ELSE IF response.threw THEN "null"
  ELSE IF response.status # 200 THEN "null"
  ELSE LET expectedHash ==
             expectedHashIn(splitOn(response.text, "\n", <<>>), assetName)
       IN  IF expectedHash = <<>> THEN "null"
           ELSE verdict(expectedHash, toLowerCase(sha256(data)))

\* ------------------------------------------------------------------------
\* BinaryManager: ensureBinary, downloadBinary, updateBinary
\* (manager.ts 50-242, 363-405).  File contents are release versions;
\* 0 is "no such file".
\* ------------------------------------------------------------------------
Versions == 1..MaxVersion
Platforms == {"darwin", "linux", "win32", "freebsd"}

PipelineSteps == <<"fetch", "select", "download", "verify", "extract">>

NoOp ==
  [name |-> "none", pc |-> "none", steps |-> <<>>, release |-> 0,
   err |-> "none", startBinary |-> 0]

NoLast ==
  [name |-> "none", outcome |-> "none", error |-> "none", steps |-> <<>>,
   startBinary |-> 0, restore |-> "none", notice |-> "none"]

NoDownload == [expected |-> <<>>, actual |-> <<>>, valid |-> "none"]

BinInit ==
  /\ platform \in Platforms
  /\ customBinaryPath \in {"", "/opt/leafpress"}
  /\ fs \in [binary : {0}, backup : {0}, archive : {0}, custom : BOOLEAN]
  /\ latest = 1
  /\ op = NoOp
  /\ last = NoLast
  /\ download = NoDownload

\* getPlatformInfo throws for any platform but darwin, linux and win32.
platformSupported == platform \in {"darwin", "linux", "win32"}

\* `if (this.customBinaryPath)`
customModeNever == FALSE

customMode == customBinaryPath # ""

\* The call returns or throws to its caller.
finish(name, outcome, error, steps, startBinary, restore, notice) ==
  /\ op' = NoOp
  /\ last' = [name |-> name, outcome |-> outcome, error |-> error,
              steps |-> steps, startBinary |-> startBinary,
              restore |-> restore, notice |-> notice]

\* ensureBinary up to its return, its throw or its call of downloadBinary.
ensureBinary ==
  /\ op.name = "none"
  /\ IF customMode
       THEN /\ IF fs.custom
                 THEN finish("ensureBinary", "ok", "none", <<>>, fs.binary, "none", "none")
                 ELSE finish("ensureBinary", "threw", "Custom binary not found",
                             <<>>, fs.binary, "none", "none")
       ELSE IF ~platformSupported
         THEN finish("ensureBinary", "threw", "Unsupported platform", <<>>,
                     fs.binary, "none", "none")
       ELSE IF fs.binary # 0
         THEN finish("ensureBinary", "ok", "none", <<>>, fs.binary, "none", "none")
       ELSE /\ op' = [NoOp EXCEPT !.name = "ensureBinary", !.pc = "fetch",
                                  !.startBinary = fs.binary]
            /\ UNCHANGED last
  /\ UNCHANGED notBinVars
  /\ download' = NoDownload
  /\ UNCHANGED <<platform, customBinaryPath, fs, latest>>

\* downloadBinary's catch: Notice, rethrow.  ensureBinary lets the error
\* through; updateBinary catches it and goes on to restore the backup.
throw(error, steps) ==
  IF op.name = "updateBinary"
    THEN /\ op' = [op EXCEPT !.pc = "restore", !.err = error, !.steps = steps]
         /\ UNCHANGED last
    ELSE finish(op.name, "threw", error, steps, op.startBinary, "none",
                "Failed to download leafpress binary")

\* requestUrl(releases/latest), release.assets.find(matchAssetName), mkdir.
DownloadFetch ==
  /\ op.pc = "fetch"
  /\ \E ok \in BOOLEAN, hasAsset \in BOOLEAN :
       IF ~ok
         THEN throw("GitHub API error", Append(op.steps, "fetch"))
       ELSE IF ~hasAsset
         THEN throw("Binary not found", op.steps \o <<"fetch", "select">>)
       ELSE /\ op' = [op EXCEPT !.pc = "download", !.release = latest,
                                !.steps = @ \o <<"fetch", "select">>]
            /\ UNCHANGED last
  /\ UNCHANGED notBinVars
  /\ UNCHANGED <<download, platform, customBinaryPath, fs, latest>>

\* requestUrl(asset.browser_download_url), fs.writeFile(archivePath).
DownloadArchive ==
  /\ op.pc = "download"
  /\ \E ok \in BOOLEAN, writeOk \in BOOLEAN :
       IF ~ok
         THEN /\ throw("Download failed", Append(op.steps, "download"))
              /\ UNCHANGED fs
       ELSE IF ~writeOk
         THEN /\ throw("writeFile failed", Append(op.steps, "download"))
              /\ UNCHANGED fs
       ELSE /\ fs' = [fs EXCEPT !.archive = op.release]
            /\ op' = [op EXCEPT !.pc = "verify", !.steps = Append(@, "download")]
            /\ UNCHANGED last
  /\ UNCHANGED notBinVars
  /\ UNCHANGED <<download, platform, customBinaryPath, latest>>

\* verifyChecksum; on false, unlink the archive and throw.
VerifyArchive ==
  /\ op.pc = "verify"
  /\ \E assets \in { <<ArchiveName>>, <<ArchiveName, ChecksumsTxt>> },
        es \in { m \in Manifests(1) : \A i \in DOMAIN m : ~m[i].padded },
        fetch \in Fetches, data \in {"B"}, unlinkOk \in BOOLEAN :
       LET text == manifestText(es)
           checksumValid ==
             verifyChecksum(assets, ArchiveName, data, responseOf(fetch, text))
           listed == IF checksumAsset(assets) = 0 THEN <<>>
                     ELSE expectedHashIn(splitOn(text, "\n", <<>>), ArchiveName)
       IN  /\ download' = [expected |-> listed, actual |-> sha256(data),
                           valid |-> checksumValid]
           /\ IF checksumValid = "false"
                THEN IF unlinkOk
                       THEN /\ fs' = [fs EXCEPT !.archive = 0]
                            /\ throw("Checksum verification failed",
                                     Append(op.steps, "verify"))
                       ELSE /\ UNCHANGED fs
                            /\ throw("unlink failed", Append(op.steps, "verify"))
                ELSE /\ op' = [op EXCEPT !.pc = "extract",
                                         !.steps = Append(@, "verify")]
                     /\ UNCHANGED <<fs, last>>
  /\ UNCHANGED notBinVars
  /\ UNCHANGED <<platform, customBinaryPath, latest>>

\* extractZip resolves as soon as unzip exits 0.
extractZip(binary) == TRUE

\* extractTarGz resolves after tar exits 0 and chmod(binaryPath, 0o755)
\* succeeded, which needs the file to exist.
extractTarGz(binary) == binary # 0

\* What `tar -xzf` / `unzip -o` leave at the binary path.
extracted(hasExe) == IF hasExe THEN op.release ELSE fs.binary

\* extractTarGz (darwin, linux) or extractZip (win32) of the archive.
ExtractArchive ==
  /\ op.pc = "extract"
  /\ \E exitOk \in BOOLEAN, hasExe \in BOOLEAN :
       LET binary == extracted(hasExe)
           resolved == IF platform = "win32" THEN extractZip(binary)
                                             ELSE extractTarGz(binary)
       IN  /\ fs' = [fs EXCEPT !.binary = binary]
           /\ IF ~exitOk
                THEN throw("extraction failed", Append(op.steps, "extract"))
              ELSE IF ~resolved
                THEN throw("chmod failed", Append(op.steps, "extract"))
              ELSE /\ op' = [op EXCEPT !.pc = "cleanup",
                                       !.steps = Append(@, "extract")]
                   /\ UNCHANGED last
  /\ UNCHANGED notBinVars
  /\ UNCHANGED <<download, platform, customBinaryPath, latest>>

\* unlink(archivePath), errors ignored; downloadBinary returns.
CleanupArchive ==
  /\ op.pc = "cleanup"
  /\ \E unlinkOk \in BOOLEAN :
       fs' = [fs EXCEPT !.archive = IF unlinkOk THEN 0 ELSE @]
  /\ IF op.name = "updateBinary"
       THEN /\ op' = [op EXCEPT !.pc = "removeBackup"]
            /\ UNCHANGED last
       ELSE finish(op.name, "ok", "none", op.steps, op.startBinary, "none",
                   "leafpress CLI downloaded successfully")
  /\ UNCHANGED notBinVars
  /\ UNCHANGED <<download, platform, customBinaryPath, latest>>

\* updateBinary up to its call of downloadBinary: the custom-path check and
\* copyFile(binaryPath, backupPath), whose failure is logged and ignored.
updateBinary ==
  /\ op.name = "none"
  /\ IF customMode
       THEN /\ finish("updateBinary", "threw", "Cannot update custom binary path",
                      <<>>, fs.binary, "none", "none")
            /\ UNCHANGED fs
       ELSE IF ~platformSupported
         THEN /\ finish("updateBinary", "threw", "Unsupported platform", <<>>,
                        fs.binary, "none", "none")
              /\ UNCHANGED fs
       ELSE /\ \E copyOk \in BOOLEAN :
                 fs' = [fs EXCEPT !.backup =
                          IF copyOk /\ fs.binary # 0 THEN fs.binary ELSE @]
            /\ op' = [NoOp EXCEPT !.name = "updateBinary", !.pc = "fetch",
                                  !.startBinary = fs.binary]
            /\ UNCHANGED last
  /\ UNCHANGED notBinVars
  /\ download' = NoDownload
  /\ UNCHANGED <<platform, customBinaryPath, latest>>

\* After a successful download: unlink(backupPath), errors logged and ignored.
RemoveBackup ==
  /\ op.pc = "removeBackup"
  /\ \E unlinkOk \in BOOLEAN :
       fs' = [fs EXCEPT !.backup = IF unlinkOk THEN 0 ELSE @]
  /\ finish("updateBinary", "ok", "none", op.steps, op.startBinary, "none",
            "leafpress CLI updated successfully")
  /\ UNCHANGED notBinVars
  /\ UNCHANGED <<download, platform, customBinaryPath, latest>>

\* The error updateBinary throws after the restore attempt: `throw err`.
thrownAfterRestore(err, restored) == err

\* updateBinary's catch: copyFile(backupPath, binaryPath), then rethrow.
RestoreBackup ==
  /\ op.pc = "restore"
  /\ \E copyOk \in BOOLEAN :
       LET restored == copyOk /\ fs.backup # 0
       IN  /\ fs' = [fs EXCEPT !.binary = IF restored THEN fs.backup ELSE @]
           /\ finish("updateBinary", "threw", thrownAfterRestore(op.err, restored),
                     op.steps, op.startBinary,
                     IF restored THEN "ok" ELSE "failed",
                     IF restored THEN "Update failed, restored previous version"
                                 ELSE "Update failed and could not restore backup")
  /\ UNCHANGED notBinVars
  /\ UNCHANGED <<download, platform, customBinaryPath, latest>>

\* The project publishes a newer release.
PublishRelease ==
  /\ latest < MaxVersion
  /\ latest' = latest + 1
  /\ UNCHANGED notBinVars
  /\ UNCHANGED <<download, platform, customBinaryPath, fs, op, last>>

NextBinary ==
  \/ ensureBinary
  \/ DownloadFetch
  \/ DownloadArchive
  \/ VerifyArchive
  \/ ExtractArchive
  \/ CleanupArchive
  \/ updateBinary
  \/ RemoveBackup
  \/ RestoreBackup
  \/ PublishRelease

\* ------------------------------------------------------------------------
\* LeafpressPanel.getDeploymentStatus (panel.ts 350-491).  A file is a
\* record of its path and content hash; paths and hashes are numbers.
\* ------------------------------------------------------------------------
\* pendingFiles.slice(0, 50)
PendingLimit == 50

\* getAllFilesInDir: the paths adapter.list gives, or no paths at all when
\* adapter.list rejects (walkDir logs the error and goes on).
getAllFilesInDir(site, listOk) ==
  IF listOk THEN [i \in DOMAIN site |-> site[i].path] ELSE <<>>

\* Object.keys(lastDeploy.filesDeployed || {})
keysOf(filesDeployed) == [i \in DOMAIN filesDeployed |-> filesDeployed[i].path]

\* The second loop: deployed files that are not among the current ones.
deletedFiles(currentFiles, deployedFiles) ==
  LET has(list, f) == \E i \in DOMAIN list : list[i] = f
      mark(list) == [i \in DOMAIN list |-> [status |-> "deleted", file |-> list[i]]]
  IN  mark(SelectSeq(deployedFiles, LAMBDA f : ~has(currentFiles, f)))

\* The first loop without its test: every current file is "added".
pendingOfUncompared(currentFiles, deployedFiles) ==
  [i \in DOMAIN currentFiles |-> [status |-> "added", file |-> currentFiles[i]]]
  \o deletedFiles(currentFiles, deployedFiles)

\* The two loops: added files, then deleted files.  No hash is read and no
\* entry is ever "modified".
pendingOf(currentFiles, deployedFiles) ==
  LET has(list, f) == \E i \in DOMAIN list : list[i] = f
      added == SelectSeq(currentFiles, LAMBDA f : ~has(deployedFiles, f))
  IN  [i \in DOMAIN added |-> [status |-> "added", file |-> added[i]]]
      \o deletedFiles(currentFiles, deployedFiles)

\* stateFile: the deploy state file is missing, does not parse, has no
\* lastDeploy, or is good.
getDeploymentStatus(stateFile, filesDeployed, site, listOk) ==
  IF stateFile # "ok" THEN [null |-> TRUE]
  ELSE LET pendingFiles ==
             pendingOf(getAllFilesInDir(site, listOk), keysOf(filesDeployed))
       IN  [null |-> FALSE,
            pendingCount |-> Len(pendingFiles),
            pendingFiles |-> SubSeq(pendingFiles, 1,
                               IF Len(pendingFiles) < PendingLimit
                                 THEN Len(pendingFiles) ELSE PendingLimit)]

\* ------------------------------------------------------------------------
\* LeafpressPanel: the refresh interval of onOpen, the poll interval of
\* waitForServerReady, onClose (panel.ts 59-71, 136-157, 210-242, 337-348,
\* 493-500)
\* ------------------------------------------------------------------------
PanelInit ==
  panel = [open |-> FALSE,
           statusRefreshInterval |-> FALSE,  \* the field is not null
           isRefreshing |-> FALSE,
           refreshTimers |-> 0,              \* live setInterval(..., 2000)
           pollTimers |-> 0,                 \* live setInterval(..., 200)
           ticks |-> 0,                      \* onOpen calls made by ticks, running
           handler |-> "idle",
           deployBtn |-> "absent",           \* the Deploy button in the DOM
           deploys |-> 0]                    \* deploy handlers awaiting the CLI

\* The body of onOpen: the container is emptied and built anew, with a new
\* Deploy button (deployment is configured) that is enabled.
rendered(p) == [p EXCEPT !.deployBtn = "enabled"]

\* The head of onOpen: set up the refresh interval on the first call.
onOpen(p) ==
  IF ~p.isRefreshing /\ ~p.statusRefreshInterval
    THEN [p EXCEPT !.statusRefreshInterval = TRUE, !.refreshTimers = @ + 1]
    ELSE p

\* Obsidian opens the view and calls onOpen.
PanelOpen ==
  /\ ~panel.open
  /\ panel' = rendered(onOpen([panel EXCEPT !.open = TRUE]))
  /\ UNCHANGED notPanelVars

\* Obsidian closes the view and calls onClose, which clears the refresh
\* interval when the field holds one.
PanelClose ==
  /\ panel.open
  /\ panel' = IF panel.statusRefreshInterval
                THEN [panel EXCEPT !.open = FALSE,
                                   !.statusRefreshInterval = FALSE,
                                   !.refreshTimers = @ - 1]
                ELSE [panel EXCEPT !.open = FALSE]
  /\ UNCHANGED notPanelVars

\* The refresh interval fires: isRefreshing = true, onOpen().
RefreshTick ==
  /\ panel.refreshTimers > 0
  /\ panel.ticks < MaxTicks
  /\ panel' = onOpen([panel EXCEPT !.isRefreshing = TRUE, !.ticks = @ + 1])
  /\ UNCHANGED notPanelVars

\* The onOpen a tick started settles: finally, isRefreshing = false.
RefreshDone ==
  /\ panel.ticks > 0
  /\ panel' = rendered([panel EXCEPT !.isRefreshing = FALSE, !.ticks = @ - 1])
  /\ UNCHANGED notPanelVars

\* A click on Start/Stop Server: the handler up to its first await.  It
\* disables the Deploy button of its render.
ButtonClick ==
  /\ panel.open
  /\ panel.handler = "idle"
  /\ \E h \in {"startServer", "stopServer"} :
       panel' = [panel EXCEPT !.handler = h, !.deployBtn = "disabled"]
  /\ UNCHANGED notPanelVars

\* A click on the Deploy button in the DOM, which a disabled button does
\* not deliver: the handler disables its button and awaits ensureBinary
\* and execCommand(["deploy", "--skip-build"]).
DeployClick ==
  /\ panel.open
  /\ panel.deployBtn = "enabled"
  /\ panel.deploys < MaxDeploys
  /\ panel' = [panel EXCEPT !.deployBtn = "disabled", !.deploys = @ + 1]
  /\ UNCHANGED notPanelVars

\* A deploy handler's command is over; its finally: await this.onOpen().
DeployDone ==
  /\ panel.deploys > 0
  /\ panel' = rendered(onOpen([panel EXCEPT !.deploys = @ - 1]))
  /\ UNCHANGED notPanelVars

\* startServer returned; waitForServerReady(10000) sets its poll interval.
waitForServerReady ==
  /\ panel.handler = "startServer"
  /\ panel' = [panel EXCEPT !.handler = "polling", !.pollTimers = @ + 1]
  /\ UNCHANGED notPanelVars

\* The poll interval fires: when the server is ready or 10 s have passed it
\* clears itself and resolves; otherwise it stays.
PollTick ==
  /\ panel.handler = "polling"
  /\ panel.pollTimers > 0
  /\ \E done \in BOOLEAN :
       panel' = IF done
                  THEN [panel EXCEPT !.handler = "finally", !.pollTimers = @ - 1]
                  ELSE panel
  /\ UNCHANGED notPanelVars

\* stopServer and its 500 ms wait are over.
HandlerAwaited ==
  /\ panel.handler = "stopServer"
  /\ panel' = [panel EXCEPT !.handler = "finally"]
  /\ UNCHANGED notPanelVars

\* The handler's finally: await this.onOpen().
HandlerFinally ==
  /\ panel.handler = "finally"
  /\ panel' = rendered(onOpen([panel EXCEPT !.handler = "idle"]))
  /\ UNCHANGED notPanelVars

NextPanel ==
  \/ PanelOpen
  \/ PanelClose
  \/ RefreshTick
  \/ RefreshDone
  \/ ButtonClick
  \/ DeployClick
  \/ DeployDone
  \/ waitForServerReady
  \/ PollTick
  \/ HandlerAwaited
  \/ HandlerFinally

\* ------------------------------------------------------------------------
\* The files of the vault and who writes them (panel.ts 350-382,
\* utils/config.ts 17-31, cli/types.ts 416-532 and 771-882)
\* ------------------------------------------------------------------------
StatePath == ".leafpress-deploy-state.json"

\* The path writeLeafpressConfig does not write.
ConfigPathIsState == StatePath

\* The path writeLeafpressConfig writes.
ConfigPath == "leafpress.json"

VaultPaths ==
  {StatePath, ConfigPath, "index.md", "templates/note.md", "notes",
   "static/images", "templates", "_site"}

\* What InitializeModal.submit creates, in the order it creates it.
InitializeWrites ==
  <<"notes", "static/images", "templates", "index.md", "templates/note.md",
    ConfigPath>>

\* Per path: does it exist, who has written it, what was written last.
\* modals counts the InitializeModal windows that are open.
VaultInit ==
  vault = [files |-> [f \in VaultPaths |->
                        [exists |-> FALSE, writers |-> {}, text |-> "none"]],
           statusInfo |-> "none",
           modals |-> 0]

\* adapter.write / adapter.mkdir of the given paths by `who`; text says
\* which content the caller writes.
written(files, paths, who, text) ==
  [f \in VaultPaths |->
     IF f \in paths
       THEN [exists |-> TRUE, writers |-> files[f].writers \cup {who},
             text |-> text]
       ELSE files[f]]

\* The panel's refresh: getDeploymentStatus reads the deploy state file.
StatusRefresh ==
  /\ vault' = [vault EXCEPT !.statusInfo =
                 IF vault.files[StatePath].exists THEN "status" ELSE "null"]
  /\ UNCHANGED notVaultVars

\* The settings tab edits the configuration it has read:
\* writeLeafpressConfig.
ConfigEdit ==
  /\ vault.files[ConfigPath].exists
  /\ \E ok \in BOOLEAN :
       vault' = [vault EXCEPT !.files =
                   IF ok THEN written(@, {ConfigPath}, "plugin", "edited") ELSE @]
  /\ UNCHANGED notVaultVars

\* CommandHandlers.initialize: a notice when stat finds leafpress.json,
\* otherwise a new InitializeModal is opened.
InitializeCommand ==
  /\ vault.modals < MaxModals
  /\ vault' = IF vault.files[ConfigPath].exists THEN vault
              ELSE [vault EXCEPT !.modals = @ + 1]
  /\ UNCHANGED notVaultVars

\* InitializeModal.submit with a title: three mkdir and three write,
\* stopping at the first that fails; after the last the modal closes.
InitializeSubmit ==
  /\ vault.modals > 0
  /\ \E done \in 0..Len(InitializeWrites) :
       vault' = [vault EXCEPT
                   !.files = written(@, {InitializeWrites[i] : i \in 1..done},
                                     "plugin", "initial"),
                   !.modals = IF done = Len(InitializeWrites) THEN @ - 1 ELSE @]
  /\ UNCHANGED notVaultVars

\* build and preview run the leafpress binary (`leafpress build`, `leafpress
\* serve`), which writes the _site directory.
BuildOrPreview ==
  /\ \E ok \in BOOLEAN :
       vault' = [vault EXCEPT !.files =
                   IF ok THEN written(@, {"_site"}, "leafpress", "built") ELSE @]
  /\ UNCHANGED notVaultVars

\* deploy runs `leafpress deploy`; after a successful deploy the binary
\* records it in the deploy state file.
DeployCommand ==
  /\ \E ok \in BOOLEAN :
       vault' = [vault EXCEPT !.files =
                   IF ok THEN written(@, {"_site", StatePath}, "leafpress", "built")
                   ELSE @]
  /\ UNCHANGED notVaultVars

NextVault ==
  \/ InitializeCommand
  \/ StatusRefresh
  \/ ConfigEdit
  \/ InitializeSubmit
  \/ BuildOrPreview
  \/ DeployCommand

\* ------------------------------------------------------------------------
\* compareVersions (manager.ts 407-464)
\* ------------------------------------------------------------------------
Digits == <<"0", "1", "2", "3", "4", "5", "6", "7", "8", "9">>

\* The UTF-16 code of a character, for the characters versions are made of.
charCode(c) ==
  IF \E i \in 1..10 : Digits[i] = c
    THEN 47 + (CHOOSE i \in 1..10 : Digits[i] = c)
    ELSE CASE c = "+" -> 43 [] c = "-" -> 45 [] c = "." -> 46
           [] c = "a" -> 97 [] c = "b" -> 98 [] c = "c" -> 99
           [] c = "n" -> 110 [] c = "r" -> 114 [] c = "v" -> 118
           [] OTHER -> 122

\* parseInt(s, 10) of a string without leading blanks or sign: the number
\* its leading digits spell, NaN (written -1) when it starts with no digit.
RECURSIVE parseIntFrom(_, _)
parseIntFrom(s, acc) ==
  IF s # <<>> /\ charCode(Head(s)) \in 48..57
    THEN parseIntFrom(Tail(s), (IF acc < 0 THEN 0 ELSE acc) * 10 + charCode(Head(s)) - 48)
    ELSE acc

parseInt(s) == parseIntFrom(s, -1)

\* part1 > part2 on strings: by code unit, a proper prefix being smaller.
RECURSIVE strGreater(_, _)
strGreater(a, b) ==
  IF a = <<>> THEN FALSE
  ELSE IF b = <<>> THEN TRUE
  ELSE IF Head(a) # Head(b) THEN charCode(Head(a)) > charCode(Head(b))
  ELSE strGreater(Tail(a), Tail(b))

\* parseVersion.  A missing minor or patch is undefined (written -1); a
\* part that is NaN or 0 is 0.  Of the pieces split("-") gives, the first is
\* the base and the second the pre-release; further pieces are dropped.
parseVersion(v) ==
  LET cleanVersion == IF v # <<>> /\ Head(v) = "v" THEN Tail(v) ELSE v
      pieces == splitOn(cleanVersion, "-", <<>>)
      base == splitOn(pieces[1], ".", <<>>)
      num(i) == IF i > Len(base) THEN -1
                ELSE IF parseInt(base[i]) < 0 THEN 0 ELSE parseInt(base[i])
  IN  [major |-> num(1), minor |-> num(2), patch |-> num(3),
       prerelease |-> IF Len(pieces) >= 2 THEN pieces[2] ELSE <<>>]

\* a !== b ? (a > b ? 1 : -1) : 0 on numbers; undefined > x and
\* x > undefined are both false.
cmpNum(a, b) ==
  IF a = b THEN 0 ELSE IF a >= 0 /\ b >= 0 /\ a > b THEN 1 ELSE -1

\* The loop over the pre-release identifiers, from index i on.
RECURSIVE comparePre(_, _, _)
comparePre(pre1Parts, pre2Parts, i) ==
  IF i > Len(pre1Parts) /\ i > Len(pre2Parts) THEN 0
  ELSE IF i > Len(pre1Parts) THEN -1
  ELSE IF i > Len(pre2Parts) THEN 1
  ELSE LET part1 == pre1Parts[i]
           part2 == pre2Parts[i]
           num1 == parseInt(part1)
           num2 == parseInt(part2)
           next == comparePre(pre1Parts, pre2Parts, i + 1)
       IN  IF num1 >= 0 /\ num2 >= 0
             THEN IF num1 # num2 THEN (IF num1 > num2 THEN 1 ELSE -1) ELSE next
           ELSE IF num1 >= 0 THEN -1
           ELSE IF num2 >= 0 THEN 1
           ELSE IF part1 # part2
             THEN (IF strGreater(part1, part2) THEN 1 ELSE -1)
           ELSE next

compareVersions(v1, v2) ==
  LET parsed1 == parseVersion(v1)
      parsed2 == parseVersion(v2)
  IN  IF parsed1.major # parsed2.major THEN cmpNum(parsed1.major, parsed2.major)
      ELSE IF parsed1.minor # parsed2.minor THEN cmpNum(parsed1.minor, parsed2.minor)
      ELSE IF parsed1.patch # parsed2.patch THEN cmpNum(parsed1.patch, parsed2.patch)
      ELSE IF parsed1.prerelease = <<>> /\ parsed2.prerelease # <<>> THEN 1
      ELSE IF parsed1.prerelease # <<>> /\ parsed2.prerelease = <<>> THEN -1
      ELSE IF parsed1.prerelease = <<>> /\ parsed2.prerelease = <<>> THEN 0
      ELSE comparePre(splitOn(parsed1.prerelease, ".", <<>>),
                      splitOn(parsed2.prerelease, ".", <<>>), 1)

\* Versions to compare: numbers major.minor.patch and pre-release
\* identifiers, and the text they are written as.
Identifiers == { <<"2">>, <<"1", "0">>, <<"a">>, <<"2", "a">> }
SemVers ==
  [major : {0, 1}, minor : {0, 2}, patch : {0, 10},
   pre : UNION { [1..k -> Identifiers] : k \in 0..MaxPre }]

RECURSIVE joinWith(_, _)
joinWith(parts, sep) ==
  IF parts = <<>> THEN <<>>
  ELSE IF Len(parts) = 1 THEN parts[1]
  ELSE parts[1] \o <<sep>> \o joinWith(Tail(parts), sep)

versionText(sv) ==
  LET digits(n) == IF n < 10 THEN <<Digits[n + 1]>>
                   ELSE <<Digits[(n \div 10) + 1], Digits[(n % 10) + 1]>>
      base == joinWith(<<digits(sv.major), digits(sv.minor), digits(sv.patch)>>, ".")
  IN  IF sv.pre = <<>> THEN base ELSE base \o <<"-">> \o joinWith(sv.pre, ".")

\* ------------------------------------------------------------------------
\* checkForUpdates (manager.ts 318-361)
\* ------------------------------------------------------------------------
\* [a-zA-Z0-9.], for the characters that occur.
VersionChars ==
  {Digits[i] : i \in 1..10} \cup {".", "a", "b", "c", "d", "e", "n", "r", "v"}

\* Length of the longest prefix of s made of characters of cs.
RECURSIVE span(_, _)
span(s, cs) == IF s # <<>> /\ Head(s) \in cs THEN 1 + span(Tail(s), cs) ELSE 0

\* Length of what \d+\.\d+\.\d+(?:-[a-zA-Z0-9.]+)? matches at the head of s;
\* 0 when it does not match there.
matchVersionAt(s) ==
  LET ds == {Digits[i] : i \in 1..10}
      rest(t, n) == SubSeq(t, n + 1, Len(t))
      d1 == span(s, ds)
      s1 == rest(s, d1)
      d2 == IF s1 # <<>> /\ Head(s1) = "." THEN span(Tail(s1), ds) ELSE 0
      s2 == rest(s1, d2 + 1)
      d3 == IF s2 # <<>> /\ Head(s2) = "." THEN span(Tail(s2), ds) ELSE 0
      s3 == rest(s2, d3 + 1)
      pre == IF s3 # <<>> /\ Head(s3) = "-" THEN span(Tail(s3), VersionChars) ELSE 0
  IN  IF d1 = 0 \/ d2 = 0 \/ d3 = 0 THEN 0
      ELSE d1 + 1 + d2 + 1 + d3 + (IF pre > 0 THEN pre + 1 ELSE 0)

\* result.stdout.match(/v?(\d+\.\d+\.\d+(?:-[a-zA-Z0-9.]+)?)/): the captured
\* group of the leftmost match, <<>> when there is no match.
versionIn(out) ==
  LET starts == {i \in 1..Len(out) :
                   matchVersionAt(SubSeq(out, i, Len(out))) > 0}
  IN  IF starts = {} THEN <<>>
      ELSE LET i == CHOOSE i \in starts : \A j \in starts : i <= j
           IN  SubSeq(out, i, i + matchVersionAt(SubSeq(out, i, Len(out))) - 1)

ZeroVersion == <<"0", ".", "0", ".", "0">>

\* fetchOk: the release request returned 200.  tagName: release.tag_name,
\* <<>> when it is missing.  run: execCommand(["--version"]) rejected, or
\* its result.
checkForUpdates(fetchOk, tagName, run) ==
  IF ~fetchOk THEN [null |-> TRUE]
  ELSE LET tag == IF tagName = <<>> THEN <<"u","n","k","n","o","w","n">>
                  ELSE tagName
           latestVersion == IF Head(tag) = "v" THEN Tail(tag) ELSE tag
           currentVersion ==
             IF run.rejected \/ ~run.success THEN ZeroVersion
             ELSE IF versionIn(run.stdout) = <<>> THEN ZeroVersion
             ELSE versionIn(run.stdout)
       IN  [null |-> FALSE, currentVersion |-> currentVersion,
            latestVersion |-> latestVersion,
            hasUpdate |-> compareVersions(currentVersion, latestVersion) < 0]

\* ------------------------------------------------------------------------
\* matchAssetName (manager.ts 93-99) and the asset patterns of
\* getPlatformInfo (manager.ts 61-71)
\* ------------------------------------------------------------------------
\* s.replace(/c/g, by): every character c of s replaced by the string by.
RECURSIVE replaceAll(_, _, _)
replaceAll(s, c, by) ==
  IF s = <<>> THEN <<>>
  ELSE (IF Head(s) = c THEN by ELSE <<Head(s)>>) \o replaceAll(Tail(s), c, by)

\* The pattern left as it is.
escapedNot(pattern) == pattern

\* pattern.replace(/\./g, '\\.')
escaped(pattern) == replaceAll(pattern, ".", <<"\\", ".">>)

\* new RegExp("^" + source + "$").test(name), for a source made of \c (the
\* character c), .* (any run of characters but line ends), . (one such
\* character) and characters that stand for themselves.
RECURSIVE regexTest(_, _)
regexTest(source, name) ==
  IF source = <<>> THEN name = <<>>
  ELSE IF Head(source) = "\\"
    THEN /\ name # <<>>
         /\ Head(name) = source[2]
         /\ regexTest(SubSeq(source, 3, Len(source)), Tail(name))
  ELSE IF Head(source) = "." /\ Len(source) >= 2 /\ source[2] = "*"
    THEN \E k \in 0..Len(name) :
           /\ \A i \in 1..k : name[i] # "\n"
           /\ regexTest(SubSeq(source, 3, Len(source)),
                        SubSeq(name, k + 1, Len(name)))
  ELSE /\ name # <<>>
       /\ IF Head(source) = "." THEN Head(name) # "\n"
                                ELSE Head(name) = Head(source)
       /\ regexTest(Tail(source), Tail(name))

matchAssetName(pattern, assetName) ==
  regexTest(replaceAll(escaped(pattern), "*", <<".", "*">>), assetName)

\* `leafpress-v*-darwin-arm64.tar.gz`
DarwinArm64Pattern ==
  <<"l","e","a","f","p","r","e","s","s","-","v","*","-","d","a","r","w","i","n",
    "-","a","r","m","6","4",".","t","a","r",".","g","z">>

\* ------------------------------------------------------------------------
\* waitForServerReady and isServerRunning (panel.ts 337-348, 254-271)
\* ------------------------------------------------------------------------
\* Times are in milliseconds.  wait.elapsed is Date.now() - startTime, and
\* is not followed beyond ElapsedCap, which lies above every timeout tried.
ElapsedCap == MaxElapsed * PollMs
Timeouts == {k * PollMs : k \in 0..(MaxElapsed - 1)}

WaitInit ==
  wait = [state |-> "idle",        \* of the promise: idle | polling | resolved
          interval |-> FALSE,      \* checkInterval is set
          elapsed |-> 0,
          timeoutMs |-> 0,
          probes |-> 0,            \* callbacks awaiting isServerRunning()
          listening |-> FALSE,     \* a process has port 3000 open
          by |-> "none"]           \* what the resolving poll saw

timedOutNever(elapsed, timeoutMs) == FALSE

\* Date.now() - startTime > timeoutMs
timedOut(elapsed, timeoutMs) == elapsed > timeoutMs

\* waitForServerReady(timeoutMs): startTime is taken, the interval is set.
WaitStart ==
  /\ wait.state = "idle"
  /\ \E timeoutMs \in Timeouts :
       wait' = [wait EXCEPT !.state = "polling", !.interval = TRUE,
                            !.elapsed = 0, !.timeoutMs = timeoutMs,
                            !.probes = 0, !.by = "none"]
  /\ UNCHANGED notWaitVars

\* The interval fires, PollMs after it was set or last fired: the
\* callback calls isServerRunning(), which spawns lsof, and awaits it.
IntervalFires ==
  /\ wait.interval
  /\ wait.probes < MaxProbes
  /\ wait' = [wait EXCEPT
                !.probes = @ + 1,
                !.elapsed = IF @ < ElapsedCap THEN @ + PollMs ELSE @]
  /\ UNCHANGED notWaitVars

\* Time passes while a probe runs or the interval is late.
TimePasses ==
  /\ wait.state = "polling"
  /\ wait.elapsed < ElapsedCap
  /\ wait' = [wait EXCEPT !.elapsed = @ + PollMs]
  /\ UNCHANGED notWaitVars

\* isServerRunning() settles: lsof closed (its output is non-empty when the
\* port is open) or could not be spawned (false).  The callback goes on.
ProbeDone ==
  /\ wait.probes > 0
  /\ \E spawnError \in BOOLEAN :
       LET isReady == ~spawnError /\ wait.listening
       IN  wait' =
             IF isReady \/ timedOut(wait.elapsed, wait.timeoutMs)
               THEN [wait EXCEPT
                       !.probes = @ - 1,
                       !.interval = FALSE,
                       !.state = IF @ = "polling" THEN "resolved" ELSE @,
                       !.by = IF wait.state # "polling" THEN @
                              ELSE IF isReady THEN "ready" ELSE "timeout"]
               ELSE [wait EXCEPT !.probes = @ - 1]
  /\ UNCHANGED notWaitVars

\* The server starts to listen on the port, or the listener goes away.
PortChange ==
  /\ wait' = [wait EXCEPT !.listening = ~@]
  /\ UNCHANGED notWaitVars

\* The handler that awaited the promise goes on; probes still in flight
\* find the interval cleared and the promise resolved.
WaitReturn ==
  /\ wait.state = "resolved"
  /\ wait' = [wait EXCEPT !.state = "idle", !.probes = 0]
  /\ UNCHANGED notWaitVars

NextWait ==
  \/ WaitStart
  \/ IntervalFires
  \/ TimePasses
  \/ ProbeDone
  \/ PortChange
  \/ WaitReturn

\* ------------------------------------------------------------------------
\* leafpress.json: utils/config.ts 4-118 and the settings tab's handlers
\* (main.ts 166-175, 572-617, 691-717)
\* ------------------------------------------------------------------------
\* A configuration has one theme property, one feature toggle, the nav
\* list and the deployment provider.  JSON.stringify and JSON.parse carry
\* such a record unchanged.
\* null, where a configuration object is expected
NoConfig == [theme |-> -1, graph |-> -1, nav |-> <<>>, provider |-> "null"]
Updaters == {"updateThemeProperty", "updateFeatureToggle"}
NavItems == {"a", "b"}
Providers == {"github-pages", "vercel"}
NoUpdate == [pc |-> "idle", value |-> 0, config |-> NoConfig,
             concurrent |-> FALSE]

ConfigInit ==
  cfg = [file |-> [theme |-> 0, graph |-> 0, nav |-> <<>>, provider |-> "none"],
         currentConfig |-> NoConfig,
         updates |-> [u \in Updaters |-> NoUpdate]]

\* display(): this.currentConfig = await readLeafpressConfig(this.app).
display ==
  /\ cfg' = [cfg EXCEPT !.currentConfig = cfg.file]
  /\ UNCHANGED notCfgVars

\* updateThemeProperty / updateFeatureToggle up to the end of
\* `await readLeafpressConfig(app)`.  `concurrent` notes that the other
\* update had read and not yet written at that time.
UpdateRead ==
  /\ \E u \in Updaters, value \in {0, 1} :
       LET v == CHOOSE w \in Updaters : w # u
           overlap == cfg.updates[v].pc = "read"
       IN  /\ cfg.updates[u].pc # "read"
           /\ cfg' = [cfg EXCEPT
                        !.updates[u] = [pc |-> "read", value |-> value,
                                        config |-> cfg.file,
                                        concurrent |-> overlap],
                        !.updates[v].concurrent = @ \/ overlap]
  /\ UNCHANGED notCfgVars

\* The assignment to the object that was read.
assigned(u, config, value) ==
  IF u = "updateThemeProperty" THEN [config EXCEPT !.theme = value]
  ELSE [config EXCEPT !.graph = value]

\* The rest of the update: assign, writeLeafpressConfig, return true.
UpdateWrite ==
  /\ \E u \in Updaters :
       LET config == assigned(u, cfg.updates[u].config, cfg.updates[u].value)
       IN  /\ cfg.updates[u].pc = "read"
           /\ cfg' = [cfg EXCEPT !.file = config,
                                 !.updates[u].pc = "returned",
                                 !.updates[u].config = NoConfig]
  /\ UNCHANGED notCfgVars

\* writeLeafpressConfig(this.app, config) with config = this.currentConfig,
\* changed in place, and the display() that follows it.
tabWrite(config) == [cfg EXCEPT !.file = config, !.currentConfig = config]

addNavItem ==
  /\ cfg.currentConfig # NoConfig
  /\ Len(cfg.currentConfig.nav) < MaxNav
  /\ \E item \in NavItems :
       cfg' = tabWrite([cfg.currentConfig EXCEPT !.nav = Append(@, item)])
  /\ UNCHANGED notCfgVars

editNavItem ==
  /\ cfg.currentConfig # NoConfig
  /\ \E index \in DOMAIN cfg.currentConfig.nav, item \in NavItems :
       cfg' = tabWrite([cfg.currentConfig EXCEPT !.nav[index] = item])
  /\ UNCHANGED notCfgVars

deleteNavItem ==
  /\ cfg.currentConfig # NoConfig
  /\ \E index \in DOMAIN cfg.currentConfig.nav :
       LET nav == cfg.currentConfig.nav
       IN  cfg' = tabWrite([cfg.currentConfig EXCEPT
                              !.nav = SubSeq(nav, 1, index - 1)
                                      \o SubSeq(nav, index + 1, Len(nav))])
  /\ UNCHANGED notCfgVars

\* The provider dropdown's onChange.
providerChange ==
  /\ cfg.currentConfig # NoConfig
  /\ \E value \in Providers :
       cfg' = tabWrite([cfg.currentConfig EXCEPT !.provider = value])
  /\ UNCHANGED notCfgVars

NextConfig ==
  \/ display
  \/ UpdateRead
  \/ UpdateWrite
  \/ addNavItem
  \/ editNavItem
  \/ deleteNavItem
  \/ providerChange

\* ------------------------------------------------------------------------
\* The custom binary path: the setting and the BinaryManager's field
\* (main.ts 34-43, 180-191; manager.ts 14-17, 79-91)
\* ------------------------------------------------------------------------
\* onload: loadSettings, then new BinaryManager(app, settings), whose
\* constructor copies settings.customBinaryPath into its own field.
PlugInit ==
  plug = [customBinaryPath |-> customBinaryPath,
          resolved |-> [by |-> "none", path |-> "", setting |-> ""]]

\* getBinaryPath(): the custom path when the field is non-empty (no path
\* tried here starts with ~), otherwise the platform's executable in the
\* plugin's bin directory; getPlatformInfo may throw.
getBinaryPath(custom, plat) ==
  IF custom # "" THEN custom
  ELSE LET info == getPlatformInfo(plat, "x64")
       IN  IF info.threw # "none" THEN info.threw
           ELSE ".obsidian/plugins/leafpress/bin/" \o info.executable

\* The text field's onChange: the setting is assigned and saved.
CustomPathChange ==
  /\ \E value \in {"", "/opt/leafpress", "/usr/bin/leafpress"} :
       /\ value # plug.customBinaryPath
       /\ plug' = [plug EXCEPT !.customBinaryPath = value]
  /\ UNCHANGED notPlugVars

\* ensureBinary, execCommand or updateBinary resolves the binary: each
\* reads this.customBinaryPath.  The setting at that time is noted.
ResolveBinary ==
  /\ \E who \in {"ensureBinary", "execCommand", "updateBinary"} :
       plug' = [plug EXCEPT
                  !.resolved = [by |-> who,
                                path |-> getBinaryPath(customBinaryPath,
                                                       platform),
                                setting |-> plug.customBinaryPath]]
  /\ UNCHANGED notPlugVars

NextPlug ==
  \/ CustomPathChange
  \/ ResolveBinary

\* ------------------------------------------------------------------------
\* Calls of the pure functions, with their arguments drawn from bounded sets
\* ------------------------------------------------------------------------
FnInit == call = [fn |-> "none"]

CallVerifyChecksum ==
  /\ call.fn = "none"
  /\ \E assets \in AssetLists, es \in Manifests(MaxLines),
        fetch \in Fetches, data \in Datas :
       call' = [fn |-> "verifyChecksum", assets |-> assets, manifest |-> es,
                fetch |-> fetch, data |-> data,
                requested |-> checksumAsset(assets),
                result |-> verifyChecksum(assets, ArchiveName, data,
                                          responseOf(fetch, manifestText(es)))]
  /\ UNCHANGED notFnVars

\* The _site directory holds nSame files as deployed, nModified files whose
\* content changed since the deploy and nAdded new files; nDeleted deployed
\* files are gone.
CallGetDeploymentStatus ==
  /\ call.fn = "none"
  /\ \E nAdded \in 0..MaxFiles, nDeleted \in 0..1, nModified \in 0..1,
        nSame \in 0..1, listOk \in BOOLEAN,
        stateFile \in {"missing", "unparsable", "noLastDeploy", "ok"} :
       LET kept == nSame + nModified
           site == [i \in 1..(kept + nAdded) |->
                      [path |-> i, hash |-> IF nSame < i /\ i <= kept THEN 2 ELSE 1]]
           filesDeployed == [i \in 1..(kept + nDeleted) |->
                      [path |-> IF i <= kept THEN i ELSE nAdded + i, hash |-> 1]]
       IN  call' = [fn |-> "getDeploymentStatus", stateFile |-> stateFile,
                    site |-> site, filesDeployed |-> filesDeployed,
                    listOk |-> listOk, deploys |-> 0,
                    result |-> getDeploymentStatus(stateFile, filesDeployed,
                                                   site, listOk)]
  /\ UNCHANGED notFnVars

\* The leafpress binary deploys the site and records it as deployed; the
\* panel then computes the status again.
DeployThenStatus ==
  /\ call.fn = "getDeploymentStatus"
  /\ call.deploys = 0
  /\ call' = [call EXCEPT
        !.stateFile = "ok",
        !.filesDeployed = call.site,
        !.deploys = 1,
        !.result = getDeploymentStatus("ok", call.site, call.site, call.listOk)]
  /\ UNCHANGED notFnVars

CallCompareVersions ==
  /\ call.fn = "none"
  /\ \E a \in SemVers, b \in {x \in SemVers : x.major = 0 /\ x.minor = 0},
        lead \in {<<>>, <<"v">>} :
       call' = [fn |-> "compareVersions", a |-> a, b |-> b,
                v1 |-> lead \o versionText(a), v2 |-> versionText(b),
                result |-> compareVersions(lead \o versionText(a), versionText(b))]
  /\ UNCHANGED notFnVars

\* Release tags: versions with and without a leading v, a tag that is no
\* version, and no tag.  Outputs of `leafpress --version`: a version after
\* some words, a version alone, and outputs without a version.
CallCheckForUpdates ==
  /\ call.fn = "none"
  /\ \E fetchOk \in BOOLEAN,
        tagName \in {lead \o versionText(sv) :
                       lead \in {<<>>, <<"v">>},
                       sv \in {x \in SemVers : x.minor = 0 /\ Len(x.pre) <= 1}}
                    \cup { <<"n","i","g","h","t","l","y">>, <<>> },
        run \in [rejected : {FALSE}, success : BOOLEAN,
                 stdout : {lead \o versionText(sv) \o <<"\n">> :
                             lead \in {<<>>, <<"l","p"," ","v">>},
                             sv \in {x \in SemVers : x.major = 1 /\ Len(x.pre) <= 1}}
                          \cup { <<>>, <<"d","e","v">>, <<"1",".","0">> }]
               \cup {[rejected |-> TRUE, success |-> FALSE, stdout |-> <<>>]} :
       call' = [fn |-> "checkForUpdates", fetchOk |-> fetchOk,
                tagName |-> tagName, run |-> run,
                result |-> checkForUpdates(fetchOk, tagName, run)]
  /\ UNCHANGED notFnVars

\* Patterns made as getPlatformInfo makes them, of letters, digits, hyphens,
\* dots and stars; names of up to MaxName characters, and the release assets
\* leafpress-v1.2.3-darwin-arm64.tar.gz, leafpress-v1.2.3-linux-amd64.tar.gz
\* and leafpress-v-darwin-arm64xtar.gz.
CallMatchAssetName ==
  /\ call.fn = "none"
  /\ \E pattern \in { DarwinArm64Pattern, <<"a", "*", ".", "z">>, <<"a", ".", "z">>,
                      <<"*">>, <<"a", "*", "-", "*", "z">> },
        assetName \in
          UNION { [1..k -> {"a", "A", ".", "-", "z"}] : k \in 0..MaxName }
          \cup { <<"l","e","a","f","p","r","e","s","s","-","v","1",".","2",".","3",
                   "-","d","a","r","w","i","n","-","a","r","m","6","4",
                   ".","t","a","r",".","g","z">>,
                 <<"l","e","a","f","p","r","e","s","s","-","v","1",".","2",".","3",
                   "-","l","i","n","u","x","-","a","m","d","6","4",
                   ".","t","a","r",".","g","z">>,
                 <<"l","e","a","f","p","r","e","s","s","-","v","-","d","a","r","w",
                   "i","n","-","a","r","m","6","4","x","t","a","r",".","g","z">> } :
       call' = [fn |-> "matchAssetName", pattern |-> pattern,
                assetName |-> assetName,
                result |-> matchAssetName(pattern, assetName)]
  /\ UNCHANGED notFnVars

CallGetPlatformInfo ==
  /\ call.fn = "none"
  /\ \E plat \in Platforms, arch \in {"arm64", "x64", "ia32", "arm"} :
       call' = [fn |-> "getPlatformInfo", platform |-> plat, arch |-> arch,
                result |-> getPlatformInfo(plat, arch)]
  /\ UNCHANGED notFnVars

NextFn ==
  \/ CallVerifyChecksum
  \/ CallMatchAssetName
  \/ CallGetPlatformInfo
  \/ CallCheckForUpdates
  \/ CallCompareVersions
  \/ CallGetDeploymentStatus
  \/ DeployThenStatus

Init ==
  /\ RunInit /\ ServerInit /\ BinInit /\ FnInit /\ PanelInit /\ VaultInit
  /\ WaitInit /\ ConfigInit /\ PlugInit

SpecPanel == Init /\ [][NextPanel]_vars

SpecVault == Init /\ [][NextVault]_vars

\* The pure functions read neither the platform nor the file system: their
\* calls are explored from one initial state.
FnStart == Init /\ platform = "linux" /\ customBinaryPath = "" /\ ~fs.custom

SpecFn == FnStart /\ [][NextFn]_vars

SpecConfig == FnStart /\ [][NextConfig]_vars

SpecPlug == Init /\ [][NextPlug]_vars

SpecWait == FnStart /\ [][NextWait]_vars

\* The event loop runs a due interval callback, and each lsof probe ends.
SpecWaitLive == SpecWait /\ WF_vars(IntervalFires) /\ WF_vars(ProbeDone)

SpecBinary == Init /\ [][NextBinary]_vars

SpecRun == Init /\ [][NextRun]_vars

SpecServer == Init /\ [][NextServer]_vars

\* ------------------------------------------------------------------------
\* Claims
\* ------------------------------------------------------------------------

\* C1: two start requests for the preview server that overlap (the second
\* arrives before the first has completed) spawn exactly one serve
\* subprocess between them, not two.
C1_OneSpawnPerOverlap ==
  Cardinality({r \in Requests : reqs[r].pc # "idle" /\ reqs[r].spawned}) <= 1

\* C2: a serve subprocess started from the panel's Start Server button or
\* the preview command is never signalled by execCommand's command timeout.
C2_ServeNeverTimedOut ==
  (args = "serve" /\ caller \in {"panel.startServer", "preview"})
    => "timeout" \notin killedBy

\* C3: whenever SIGTERM was delivered to a subprocess (by the 5-minute
\* timeout or by stopServerProcess) and the process has still not exited when
\* the 3-second timer fires, that timer delivers SIGKILL.
C3_SigkillAfterGrace ==
  [][(graceTimer = "armed" /\ graceTimer' = "fired"
        /\ "SIGTERM" \in child.sent /\ child.handle)
      => "SIGKILL" \in child'.sent]_vars

\* Which handler built a CLI Invocation Result.
resultKind(v) ==
  IF v.code = -1 THEN "timeout"
  ELSE IF v.stderr = <<"err.message">> THEN "error"
  ELSE "close"

\* C4: once close, error or the timeout has occurred, execCommand's promise
\* holds the result built by the first of them, and no later event changes
\* a delivered result.
C4_OneResultFromFirstEvent ==
  /\ [](firstEvent # "none" =>
          /\ promise.state = "resolved"
          /\ resultKind(promise.value) = firstEvent)
  /\ [][promise.state = "resolved" => promise' = promise]_vars

\* C4 witness: the timeout delivered the result, and the child's close
\* arrived afterwards.
C4_Witness ==
  /\ firstEvent = "timeout"
  /\ child.closed
  /\ promise.state = "resolved"
  /\ promise.value.code = -1

\* C5: a result produced for a process that closed carries the process's
\* exit code in its code field, and success is true exactly when that code
\* field is 0.
C5_CloseResultCarriesExitCode ==
  (firstEvent = "close" /\ child.exited /\ child.exitCode \in ExitCodes)
    => /\ promise.value.code = child.exitCode
       /\ promise.value.success <=> (promise.value.code = 0)

\* C6: when the spawn fails at the OS level, execCommand does not reject:
\* its promise resolves with success = false and the OS error message as
\* the error text.
C6_SpawnFailureResolves ==
  (ExecMode /\ child.spawnFailed /\ child.errored)
    => /\ promise.state = "resolved"
       /\ ~promise.value.success
       /\ promise.value.stderr = <<"err.message">>

\* C6 witness: a failed spawn whose error, close and timeout have all
\* happened.
C6_Witness ==
  /\ ExecMode /\ child.spawnFailed /\ child.errored
  /\ child.closed /\ timeout = "fired"
  /\ promise.state = "resolved"

\* C7: in managed mode, whenever ensureBinary has returned successfully the
\* executable exists at the managed path, and when it was absent beforehand
\* the call ran fetch, select, download, verify and extract in that order.
C7_EnsureLeavesBinary ==
  (customBinaryPath = "" /\ last.name = "ensureBinary" /\ last.outcome = "ok")
    => /\ fs.binary # 0
       /\ last.startBinary = 0 => last.steps = PipelineSteps

\* The errors downloadBinary throws, which updateBinary rethrows when the
\* restore from backup succeeded.
DownloadErrors ==
  {"GitHub API error", "Binary not found", "Download failed",
   "writeFile failed", "Checksum verification failed", "unlink failed",
   "extraction failed", "chmod failed"}

\* C8: while a custom binary path is configured no call downloads anything
\* or creates, replaces or deletes a file: ensureBinary only checks that the
\* custom path exists and throws when it does not, and updateBinary throws
\* before doing anything.
C8_CustomPathFrame ==
  /\ [][customBinaryPath # "" => (fs' = fs /\ op' = NoOp)]_vars
  /\ []((customBinaryPath # "" /\ last.name = "ensureBinary") =>
          /\ last.steps = <<>>
          /\ last.outcome = "ok" <=> fs.custom
          /\ last.outcome = "threw" => last.error = "Custom binary not found")
  /\ []((customBinaryPath # "" /\ last.name = "updateBinary") =>
          /\ last.steps = <<>>
          /\ last.outcome = "threw"
          /\ last.error = "Cannot update custom binary path")

\* C8 witness: with a custom path configured, updateBinary has been called
\* and has thrown, after an ensureBinary that found the custom file missing.
C8_Witness ==
  /\ customBinaryPath # ""
  /\ ~fs.custom
  /\ last.name = "updateBinary"
  /\ last.outcome = "threw"

\* C9: if updateBinary fails during the re-fetch and the restore from
\* backup succeeds, the binary at the managed path is the one that was
\* installed when updateBinary began.
C9_RestoreGivesStartBinary ==
  (last.name = "updateBinary" /\ last.outcome = "threw" /\ last.restore = "ok"
     /\ op.name = "none")
    => fs.binary = last.startBinary

\* C10: when the re-fetch fails and the restore from backup fails too, the
\* error updateBinary throws is none of the errors it throws when the
\* restore succeeds.
C10_RestoreFailureDistinct ==
  (last.name = "updateBinary" /\ last.restore = "failed")
    => last.error \notin DownloadErrors

\* C11: when the SHA-256 of the downloaded archive differs from the hash
\* the release's manifest lists for it, the install fails, the archive file
\* is gone when the error reaches the caller, and the archive was never
\* extracted.
C11_MismatchDeletesArchive ==
  (/\ op.name = "none"
   /\ "verify" \in {last.steps[i] : i \in DOMAIN last.steps}
   /\ download.expected # <<>>
   /\ download.expected # download.actual)
  => /\ last.outcome = "threw"
     /\ fs.archive = 0
     /\ "extract" \notin {last.steps[i] : i \in DOMAIN last.steps}

\* C12: verifyChecksum has three outcomes.  With a manifest asset in the
\* release and its text fetched, the result is true when the first entry for
\* the asset name carries the archive's SHA-256 in any letter case and false
\* when it carries another hash; with no manifest asset the result is null.
C12_VerifyChecksumOutcomes ==
  call.fn = "verifyChecksum" =>
    LET named == {i \in DOMAIN call.manifest :
                    call.manifest[i].name = ArchiveName}
        hasManifest == \E i \in DOMAIN call.assets :
                         call.assets[i] \in {ChecksumsTxt, Sha256Sums,
                                             UpperChecksumName}
        sameHex(h, d) == \/ h = <<"A", "B">> /\ d = "B"
                         \/ h = <<"c", "d">> /\ d = "X"
    IN  /\ ~hasManifest => call.result = "null"
        /\ (hasManifest /\ call.fetch = "ok" /\ named # {}) =>
             LET first == CHOOSE i \in named : \A j \in named : i <= j
             IN  call.result = IF sameHex(call.manifest[first].hash, call.data)
                                 THEN "true" ELSE "false"

C12_Witness ==
  /\ call.fn = "verifyChecksum"
  /\ call.result = "true"
  /\ call.data = "B"
  /\ Len(call.manifest) = 2
  /\ call.manifest[1].name = OtherName
  /\ call.manifest[2] = [hash |-> <<"A", "B">>, name |-> ArchiveName, padded |-> TRUE]

\* C13: diff(current, deployed) lists a path as "added" when it is in
\* current only, "modified" when it is in both with different hashes,
\* "deleted" when it is in deployed only, and not at all when it is in both
\* with equal hashes (checked where the list is not truncated).
C13_DiffClassifiesEveryPath ==
  (/\ call.fn = "getDeploymentStatus" /\ ~call.result.null /\ call.listOk
   /\ call.result.pendingCount <= PendingLimit)
  => LET cur == {call.site[i] : i \in DOMAIN call.site}
         dep == {call.filesDeployed[i] : i \in DOMAIN call.filesDeployed}
         out == {call.result.pendingFiles[i] : i \in DOMAIN call.result.pendingFiles}
         want(f) ==
           IF \E c \in cur : c.path = f
             THEN IF \E d \in dep : d.path = f
                    THEN IF \E c \in cur, d \in dep :
                              c.path = f /\ d.path = f /\ c.hash # d.hash
                           THEN {"modified"} ELSE {}
                    ELSE {"added"}
             ELSE {"deleted"}
     IN  \A f \in {x.path : x \in cur \cup dep} :
           {o.status : o \in {x \in out : x.file = f}} = want(f)

C15_TruncatedListFullCount ==
  (call.fn = "getDeploymentStatus" /\ ~call.result.null /\ call.listOk)
  => LET cur == {call.site[i] : i \in DOMAIN call.site}
         dep == {call.filesDeployed[i] : i \in DOMAIN call.filesDeployed}
         n == Cardinality((cur \ dep) \cup
                          {d \in dep : \A c \in cur : c.path # d.path})
     IN  /\ Len(call.result.pendingFiles) = IF n < 50 THEN n ELSE 50
         /\ call.result.pendingCount = n

\* C16: once the panel has been torn down (onClose), no periodic timer the
\* panel created is live: neither the status refresh interval nor a
\* readiness poll interval, whatever was in flight when it closed.
C16_NoTimerAfterClose ==
  ~panel.open => (panel.refreshTimers = 0 /\ panel.pollTimers = 0)

\* C17: no operation of the plugin (status refresh, build, preview, deploy,
\* configuration edit, initialize) writes or deletes the deploy state file:
\* once it exists it stays, and only the leafpress binary has written it.
C17_StateFileReadOnly ==
  /\ [][vault.files[StatePath].exists => vault'.files[StatePath].exists]_vars
  /\ []("plugin" \notin vault.files[StatePath].writers)

C17_Witness ==
  /\ vault.files[StatePath].writers = {"leafpress"}
  /\ vault.files[ConfigPath].writers = {"plugin"}
  /\ vault.files["index.md"].exists
  /\ vault.statusInfo = "status"

\* C18: compareVersions(a, b) is -1, 0 or 1 by semantic-versioning
\* precedence: major, minor, patch numerically (a leading v stripped); with
\* equal bases a release outranks a pre-release; two pre-releases compare
\* identifier by identifier, numeric ones numerically and below non-numeric
\* ones, non-numeric ones lexically, a missing trailing identifier lower.
C18_SemverPrecedence ==
  call.fn = "compareVersions" =>
    LET numeric(id) == \A i \in DOMAIN id : charCode(id[i]) \in 48..57
        sign(x, y) == IF x = y THEN 0 ELSE IF x > y THEN 1 ELSE -1
        ident(x, y) ==
          IF numeric(x) /\ numeric(y) THEN sign(parseInt(x), parseInt(y))
          ELSE IF numeric(x) THEN -1
          ELSE IF numeric(y) THEN 1
          ELSE IF x = y THEN 0
          ELSE IF strGreater(x, y) THEN 1 ELSE -1
        differ == {i \in 1..MaxPre + 1 :
                     \/ i > Len(call.a.pre) /\ i <= Len(call.b.pre)
                     \/ i <= Len(call.a.pre) /\ i > Len(call.b.pre)
                     \/ /\ i <= Len(call.a.pre) /\ i <= Len(call.b.pre)
                        /\ ident(call.a.pre[i], call.b.pre[i]) # 0}
        pre == IF differ = {} THEN 0
               ELSE LET i == CHOOSE i \in differ : \A j \in differ : i <= j
                    IN  IF i > Len(call.a.pre) THEN -1
                        ELSE IF i > Len(call.b.pre) THEN 1
                        ELSE ident(call.a.pre[i], call.b.pre[i])
        want == IF call.a.major # call.b.major THEN sign(call.a.major, call.b.major)
                ELSE IF call.a.minor # call.b.minor THEN sign(call.a.minor, call.b.minor)
                ELSE IF call.a.patch # call.b.patch THEN sign(call.a.patch, call.b.patch)
                ELSE IF call.a.pre = <<>> /\ call.b.pre = <<>> THEN 0
                ELSE IF call.a.pre = <<>> THEN 1
                ELSE IF call.b.pre = <<>> THEN -1
                ELSE pre
    IN  call.result = want

\* C19: when the binary's own version cannot be read or parsed,
\* checkForUpdates takes 0.0.0 as the current version and reports
\* hasUpdate = true, whatever tag the latest release carries.
C19_UnreadableVersionAlwaysUpdates ==
  (/\ call.fn = "checkForUpdates"
   /\ ~call.result.null
   /\ \/ call.run.rejected
      \/ ~call.run.success
      \/ call.run.stdout \in { <<>>, <<"d","e","v">>, <<"1",".","0">> })
  => /\ call.result.currentVersion = ZeroVersion
     /\ call.result.hasUpdate

\* C20: matchAssetName(pattern, name) is true exactly when name is the
\* pattern with each * replaced by some, possibly empty, run of characters:
\* a dot matches only a dot, letters match in their own case, and the whole
\* name is matched.  The darwin-arm64 pattern accepts
\* leafpress-v1.2.3-darwin-arm64.tar.gz and rejects
\* leafpress-v1.2.3-linux-amd64.tar.gz.
C20_GlobMatch ==
  call.fn = "matchAssetName" =>
    LET RECURSIVE glob(_, _)
        glob(pat, name) ==
          IF pat = <<>> THEN name = <<>>
          ELSE IF Head(pat) = "*"
            THEN \E k \in 0..Len(name) :
                   glob(Tail(pat), SubSeq(name, k + 1, Len(name)))
          ELSE /\ name # <<>>
               /\ Head(name) = Head(pat)
               /\ glob(Tail(pat), Tail(name))
    IN  /\ call.result <=> glob(call.pattern, call.assetName)
        /\ (call.pattern = DarwinArm64Pattern /\ Len(call.assetName) = 36) =>
             (call.result <=> call.assetName[18] = "d")

C20_Witness ==
  /\ call.fn = "matchAssetName"
  /\ call.pattern = DarwinArm64Pattern
  /\ Len(call.assetName) = 36
  /\ call.assetName[18] = "d"
  /\ call.result

\* C21: getPlatformInfo never guesses a fallback platform.  On a host OS
\* other than darwin, linux and win32 it fails as unsupported, and every
\* descriptor it returns names, in its archive pattern, the host's own
\* operating system and the host's own CPU architecture (x64 is published
\* as amd64, arm64 as arm64; no other architecture has either name).
C21_DescriptorNamesHost ==
  call.fn = "getPlatformInfo" =>
    LET r == call.result
        osName == [darwin |-> "darwin", linux |-> "linux", win32 |-> "windows"]
    IN  IF call.platform \notin {"darwin", "linux", "win32"}
          THEN r.threw = "Unsupported platform"
          ELSE /\ r.threw = "none"
               /\ r.assetName[2] = osName[call.platform]
               /\ \/ call.arch = "arm64" /\ r.assetName[4] = "arm64"
                  \/ call.arch = "x64" /\ r.assetName[4] = "amd64"

\* C22: when the release has a checksum manifest asset and the manifest
\* has an entry for the selected archive, the archive is extracted only if
\* the SHA-256 of the downloaded bytes equals that entry (in any letter
\* case); every other outcome of the verification aborts the install before
\* extraction.
C22_ExtractOnlyWhenHashMatches ==
  LET steps == IF op.name = "none" THEN last.steps ELSE op.steps
  IN  (/\ "extract" \in {steps[i] : i \in DOMAIN steps}
       /\ download.expected # <<>>)
      => toLowerCase(download.expected) = toLowerCase(download.actual)

\* C23: when a release carries several candidate manifests, verifyChecksum
\* requests them by priority whatever their order among the assets:
\* checksums.txt before SHA256SUMS, and SHA256SUMS before any other asset
\* whose name contains "checksum".
C23_ManifestPriority ==
  call.fn = "verifyChecksum" =>
    LET names == {call.assets[i] : i \in DOMAIN call.assets}
        chosen == IF call.requested = 0 THEN <<>>
                  ELSE call.assets[call.requested]
    IN  /\ ChecksumsTxt \in names => chosen = ChecksumsTxt
        /\ (ChecksumsTxt \notin names /\ Sha256Sums \in names)
             => chosen = Sha256Sums

\* C24: waitForServerReady(timeoutMs) always completes.  Its promise
\* resolves when a poll sees the port in use, and otherwise resolves once
\* the timeout has elapsed, also when the server never listens.
C24_WaitCompletes == (wait.state = "polling") ~> (wait.state = "resolved")

C24_Witness ==
  /\ wait.state = "resolved"
  /\ wait.by = "timeout"
  /\ ~wait.listening
  /\ wait.timeoutMs = PollMs

\* C25: adding, editing or deleting a navigation item, or changing the
\* deployment provider, changes only that part of leafpress.json: every
\* other field keeps the value the file held just before the write, also a
\* value a theme or feature-toggle update wrote after the tab was displayed.
C25_TabWriteFrame ==
  [][/\ (addNavItem \/ editNavItem \/ deleteNavItem) =>
          /\ cfg'.file.theme = cfg.file.theme
          /\ cfg'.file.graph = cfg.file.graph
          /\ cfg'.file.provider = cfg.file.provider
     /\ providerChange =>
          /\ cfg'.file.theme = cfg.file.theme
          /\ cfg'.file.graph = cfg.file.graph
          /\ cfg'.file.nav = cfg.file.nav]_vars

\* C26: when two update calls of utils/config.ts for different properties
\* run concurrently and both have returned true, leafpress.json holds both
\* new values, whatever the interleaving.
C26_BothUpdatesPersist ==
  (\A u \in Updaters : /\ cfg.updates[u].pc = "returned"
                       /\ cfg.updates[u].concurrent)
  => /\ cfg.file.theme = cfg.updates["updateThemeProperty"].value
     /\ cfg.file.graph = cfg.updates["updateFeatureToggle"].value

\* C27: once the custom binary path setting is changed and saved, every
\* later resolution of the binary by ensureBinary, execCommand or
\* updateBinary uses the new value, with no reload of the plugin.
C27_ResolutionUsesSetting ==
  plug.resolved.by # "none" =>
    plug.resolved.path = getBinaryPath(plug.resolved.setting, platform)

\* C28: while a deploy started from the panel runs, the panel starts no
\* second one, also when the 2-second refresh re-renders the panel in the
\* meantime: at most one panel deploy is in progress at any time.
C28_OneDeployAtATime == panel.deploys <= 1

\* C29: the initialize flow never overwrites an existing leafpress.json:
\* whatever the order of initialize commands and wizard submissions, a
\* submission leaves a leafpress.json that exists as it is.
C29_InitializeKeepsConfig ==
  [][(InitializeSubmit /\ vault.files[ConfigPath].exists)
       => vault'.files[ConfigPath] = vault.files[ConfigPath]]_vars

\* C30: when a subprocess started by execCommand exits before the 5-minute
\* timer has fired, the timer is cancelled: from then on the timer does not
\* fire, no signal is sent to that process and the result delivered to the
\* caller is not the timeout result.
C30_ExitCancelsTimeout ==
  [][(ExecMode /\ child.exited /\ timeout # "fired")
       => /\ timeout' # "fired"
          /\ child'.sent = child.sent
          /\ promise'.state = "resolved" => promise'.value.code # -1]_vars

C30_Witness ==
  /\ ExecMode
  /\ child.exited /\ child.closed
  /\ timeout = "cleared"
  /\ child.sent = {}
  /\ promise.state = "resolved"
  /\ promise.value.success

====
